---- MODULE Spec2Model ----
(***************************************************************************)
(* A model of engine.py: the epoch training loop (train_one_epoch), the    *)
(* validation loop (evaluate) and the inference script (prediction).       *)
(* Tensors, the network and the optimizer's arithmetic are abstracted to   *)
(* the bookkeeping the three functions do around them: which micro-steps   *)
(* contribute to the accumulated gradient, when the optimizer steps, which *)
(* parameter-group fields and meters are written, how file names become    *)
(* labels and how prediction records are bucketed.                         *)
(***************************************************************************)
EXTENDS Integers, Sequences, FiniteSets, TLC

\* ------------------------------------------------------------------ bounds
MaxFreq == 3        \* update_freq ranges over 1..MaxFreq
MaxStepsPerEpoch == 2   \* num_training_steps_per_epoch ranges over 0..MaxStepsPerEpoch
MaxBatches == 7     \* a batch source yields at most MaxBatches batches per epoch
MaxEpochs == 2      \* consecutive calls of train_one_epoch
MaxEvalBatches == 3 \* batches the validation source yields
MaxBatchSize == 2   \* samples per validation batch
MaxRecords == 3     \* records make_list hands to prediction

VARIABLES
    \* ---- train_one_epoch
    pc,               \* "idle" | "loop" | "returned" | "raised"
    update_freq, num_training_steps_per_epoch, use_amp,
    lr_present,       \* lr_schedule_values is not None
    wd_present,       \* wd_schedule_values is not None
    ema_present,      \* model_ema is not None
    epoch, start_steps,
    data_iter_step,   \* number of batches enumerate() has handed out so far
    grad,             \* micro-steps whose gradient sits in the parameters' .grad
    param_groups,     \* optimizer.param_groups
    opt_steps,        \* optimizer steps triggered since construction
    epoch_opt_steps,  \* optimizer steps triggered in this epoch
    dropped,          \* what the zero_grad at the start of this epoch discarded
    ema_updates,      \* model_ema.update calls since construction
    meters,           \* metric_logger.meters: name -> number of updates
    processed,        \* micro-steps of this epoch that were not skipped
    synced,           \* synchronize_between_processes calls of this epoch
    returned,         \* the map train_one_epoch returned, or "none"
    eff,              \* what the last loop iteration did
    \* ---- evaluate
    ev_pc,            \* "loop" | "returned" | "raised"
    ev_meters,        \* metric_logger.meters: name -> [count, total]
    ev_batches,       \* batches processed
    cnt,              \* annotated images written
    ev_written,       \* annotated images written per output directory
    ev_seen,          \* samples seen so far, per class id
    ev_last,          \* samples of the last batch, per class id
    ev_returned,      \* the map evaluate returned, or "none"
    \* ---- prediction
    pr_pc,            \* "crop" | "save" | "eval" | "done" | "raised"
    pr_error,         \* the exception that ended prediction and the line raising it
    pred_save, pred_eval,     \* args.pred_save, args.pred_eval
    result,           \* the prediction records, in input order
    files,            \* the .txt files that exist next to the images
    copied,           \* the copies made: <<destination folder, source path>>
    neg_i, pos_i,     \* copies done of the neg list and of the pos list
    branch,           \* the report taken: "none" | "fallback" | "four"
    itn, itp, ifn, ifp        \* the index lists of the four buckets

trainVars == <<pc, update_freq, num_training_steps_per_epoch, use_amp, lr_present,
               wd_present, ema_present, epoch, start_steps, data_iter_step, grad,
               param_groups, opt_steps, epoch_opt_steps, dropped, ema_updates, meters,
               processed, synced, returned, eff>>

evalVars == <<ev_pc, ev_meters, ev_batches, cnt, ev_written, ev_seen, ev_last,
              ev_returned>>

predVars == <<pr_pc, pr_error, pred_save, pred_eval, result, files, copied,
              neg_i, pos_i, branch, itn, itp, ifn, ifp>>

vars == <<trainVars, evalVars, predVars>>

\* ------------------------------------------------------- train_one_epoch

\* the loss values criterion can produce: a finite one, NaN and the infinities
Losses == {"finite", "nan", "inf", "-inf"}

\* a finiteness test that only rejects NaN
IsFiniteNanOnly(loss) == loss # "nan"

\* math.isfinite(loss_value)
IsFinite(loss) == loss = "finite"

\* step = data_iter_step // update_freq
StepOf(d, F) == d \div F

\* the skip test with > in place of >=
BeyondEpochStrict(d, F, N) == StepOf(d, F) > N

\* if step >= num_training_steps_per_epoch: continue
BeyondEpoch(d, F, N) == StepOf(d, F) >= N

\* if lr_schedule_values is not None or wd_schedule_values is not None
\*        and data_iter_step % update_freq == 0:
\* Python's `and` binds tighter than `or`.
RefreshCond(lrp, wdp, d, F) == lrp \/ (wdp /\ d % F = 0)

\* the boundary test on the index instead of the count
UpdateGradOnIndex(d, F) == d % F = 0

\* (data_iter_step + 1) % update_freq == 0
UpdateGrad(d, F) == (d + 1) % F = 0

\* the schedule tables, indexed by the global training iteration
LrTable(it) == 100 + it
WdTable(it) == 200 + it

\* the body of `for i, param_group in enumerate(optimizer.param_groups)`
RefreshGroup(g, lrp, wdp, it) ==
    LET g1 == IF lrp THEN [g EXCEPT !.lr = LrTable(it) * g.lr_scale] ELSE g
    IN  IF wdp /\ g1.weight_decay > 0
        THEN [g1 EXCEPT !.weight_decay = WdTable(it)]
        ELSE g1

\* number of param_group["lr"] assignments one refresh makes
LrWrites(groups, lrp) == IF lrp THEN Len(groups) ELSE 0

\* number of param_group["weight_decay"] assignments one refresh makes
WdWrites(groups, wdp) ==
    IF wdp THEN Cardinality({i \in 1..Len(groups) : groups[i].weight_decay > 0}) ELSE 0

\* an epoch start that leaves the gradients alone
EpochStartGradKept(g) == g

\* optimizer.zero_grad() at the start of an epoch
EpochStartGrad(g) == {}

\* optimizer.zero_grad() after an optimizer step
ZeroGrad(g) == {}

\* loss.backward(): the micro-step's gradient is added to .grad
Backward(g, e, d) == g \cup {<<e, d>>}

\* loss_scaler(loss, optimizer, ..., update_grad=flag): scaled backward pass,
\* and an optimizer step when update_grad is set
LossScalerSteps(flag) == flag

\* metric_logger after construction: the two meters add_meter registers
InitialMeters == [n \in {"lr", "min_lr"} |-> 0]

\* metric_logger.update(name=value): a None value is ignored
MeterUpdate(m, name, isNone) ==
    IF isNone THEN m
    ELSE [n \in DOMAIN m \cup {name} |->
            IF n = name THEN (IF n \in DOMAIN m THEN m[n] ELSE 0) + 1 ELSE m[n]]

RECURSIVE MeterUpdates(_, _)
MeterUpdates(m, ups) ==
    IF ups = <<>> THEN m
    ELSE MeterUpdates(MeterUpdate(m, Head(ups)[1], Head(ups)[2]), Tail(ups))

\* weight_decay_value stays None unless some group has weight_decay > 0
WeightDecayIsNone(groups) == \A i \in 1..Len(groups) : ~(groups[i].weight_decay > 0)

\* the metric_logger.update calls of one processed micro-step (lines 103-119)
RecordStep(m, groups, amp) ==
    MeterUpdates(m, <<  <<"loss", FALSE>>, <<"class_acc", FALSE>>,
                        <<"lr", FALSE>>, <<"min_lr", FALSE>>,
                        <<"weight_decay", WeightDecayIsNone(groups)>>,
                        <<"grad_norm", ~amp>>  >>)

NoEffect == [d |-> -1, skipped |-> FALSE, lr_writes |-> 0, wd_writes |-> 0,
             forward |-> FALSE, backward |-> FALSE, opt_step |-> FALSE,
             zero_grad |-> FALSE, ema |-> FALSE, recorded |-> FALSE,
             stepped_grad |-> {}, loss |-> "none"]

InitialGroups ==
    << [lr |-> 1, lr_scale |-> 1, weight_decay |-> 5],
       [lr |-> 1, lr_scale |-> 2, weight_decay |-> 0] >>

\* the state of a function that is not running
TrainIdle ==
    /\ pc = "off" /\ update_freq = 1 /\ num_training_steps_per_epoch = 0
    /\ use_amp = FALSE /\ lr_present = FALSE /\ wd_present = FALSE
    /\ ema_present = FALSE /\ epoch = -1 /\ start_steps = 0 /\ data_iter_step = 0
    /\ grad = {} /\ param_groups = <<>> /\ opt_steps = 0 /\ epoch_opt_steps = 0
    /\ dropped = {} /\ ema_updates = 0 /\ meters = <<>> /\ processed = 0
    /\ synced = 0 /\ returned = "none" /\ eff = NoEffect

EvalIdle ==
    /\ ev_pc = "idle" /\ ev_meters = <<>> /\ ev_batches = 0 /\ cnt = 0
    /\ ev_written = <<>> /\ ev_seen = <<>> /\ ev_last = <<>> /\ ev_returned = "none"

PredIdle ==
    /\ pr_pc = "idle" /\ pr_error = [type |-> "none", line |-> 0, path |-> <<>>] /\ pred_save = FALSE /\ pred_eval = FALSE
    /\ result = <<>> /\ files = {} /\ copied = {} /\ neg_i = 0 /\ pos_i = 0
    /\ branch = "none" /\ itn = <<>> /\ itp = <<>> /\ ifn = <<>> /\ ifp = <<>>

InitTrain ==
    /\ pc = "idle"
    /\ update_freq \in 1..MaxFreq
    /\ num_training_steps_per_epoch \in 0..MaxStepsPerEpoch
    /\ use_amp \in BOOLEAN
    /\ lr_present \in BOOLEAN
    /\ wd_present \in BOOLEAN
    /\ ema_present \in BOOLEAN
    /\ epoch = -1
    /\ start_steps = 0
    /\ data_iter_step = 0
    /\ grad = {}
    /\ param_groups = InitialGroups
    /\ opt_steps = 0
    /\ epoch_opt_steps = 0
    /\ dropped = {}
    /\ ema_updates = 0
    /\ meters = InitialMeters
    /\ processed = 0
    /\ synced = 0
    /\ returned = "none"
    /\ eff = NoEffect
    /\ EvalIdle
    /\ PredIdle

\* lines 35-42: entry of train_one_epoch, up to the first batch
StartEpoch ==
    /\ pc \in {"idle", "returned"}
    /\ epoch + 1 < MaxEpochs
    /\ pc' = "loop"
    /\ epoch' = epoch + 1
    /\ start_steps' = (epoch + 1) * num_training_steps_per_epoch
    /\ data_iter_step' = 0
    /\ grad' = EpochStartGrad(grad)
    /\ dropped' = grad
    /\ epoch_opt_steps' = 0
    /\ meters' = InitialMeters
    /\ processed' = 0
    /\ synced' = 0
    /\ returned' = "none"
    /\ eff' = NoEffect
    /\ UNCHANGED <<update_freq, num_training_steps_per_epoch, use_amp, lr_present,
                   wd_present, ema_present, param_groups, opt_steps, ema_updates>>
    /\ UNCHANGED <<evalVars, predVars>>

\* lines 44-47: a batch past the declared number of steps is skipped
SkipBatch ==
    /\ pc = "loop"
    /\ data_iter_step < MaxBatches
    /\ BeyondEpoch(data_iter_step, update_freq, num_training_steps_per_epoch)
    /\ data_iter_step' = data_iter_step + 1
    /\ eff' = [NoEffect EXCEPT !.d = data_iter_step, !.skipped = TRUE]
    /\ UNCHANGED <<pc, update_freq, num_training_steps_per_epoch, use_amp, lr_present,
                   wd_present, ema_present, epoch, start_steps, grad, param_groups,
                   opt_steps, epoch_opt_steps, dropped, ema_updates, meters, processed,
                   synced, returned>>
    /\ UNCHANGED <<evalVars, predVars>>

\* lines 48-55: the schedule refresh of one micro-step
Refreshed(groups, d) ==
    IF RefreshCond(lr_present, wd_present, d, update_freq)
    THEN [i \in 1..Len(groups) |->
            RefreshGroup(groups[i], lr_present, wd_present,
                         start_steps + StepOf(d, update_freq))]
    ELSE groups

\* lines 44-141 with a finite loss: one whole micro-step
MicroStep ==
    /\ pc = "loop"
    /\ data_iter_step < MaxBatches
    /\ ~BeyondEpoch(data_iter_step, update_freq, num_training_steps_per_epoch)
    /\ \E loss \in Losses :
        /\ IsFinite(loss)
        /\ LET d == data_iter_step
               refresh == RefreshCond(lr_present, wd_present, d, update_freq)
               groups == Refreshed(param_groups, d)
               g1 == Backward(grad, epoch, d)
               flag == UpdateGrad(d, update_freq)
               stepped == IF use_amp THEN LossScalerSteps(flag) ELSE flag
           IN  /\ param_groups' = groups
               /\ grad' = IF flag THEN ZeroGrad(g1) ELSE g1
               /\ opt_steps' = opt_steps + (IF stepped THEN 1 ELSE 0)
               /\ epoch_opt_steps' = epoch_opt_steps + (IF stepped THEN 1 ELSE 0)
               /\ ema_updates' = ema_updates + (IF flag /\ ema_present THEN 1 ELSE 0)
               /\ meters' = RecordStep(meters, groups, use_amp)
               /\ processed' = processed + 1
               /\ eff' = [d |-> d, skipped |-> FALSE,
                          lr_writes |-> IF refresh THEN LrWrites(param_groups, lr_present) ELSE 0,
                          wd_writes |-> IF refresh THEN WdWrites(param_groups, wd_present) ELSE 0,
                          forward |-> TRUE, backward |-> TRUE, opt_step |-> stepped,
                          zero_grad |-> flag, ema |-> flag /\ ema_present,
                          recorded |-> TRUE,
                          stepped_grad |-> IF stepped THEN g1 ELSE {},
                          loss |-> loss]
    /\ data_iter_step' = data_iter_step + 1
    /\ UNCHANGED <<pc, update_freq, num_training_steps_per_epoch, use_amp, lr_present,
                   wd_present, ema_present, epoch, start_steps, dropped, synced, returned>>
    /\ UNCHANGED <<evalVars, predVars>>

\* lines 44-75 with a non-finite loss: the assert raises out of the function
NonFiniteLoss ==
    /\ pc = "loop"
    /\ data_iter_step < MaxBatches
    /\ ~BeyondEpoch(data_iter_step, update_freq, num_training_steps_per_epoch)
    /\ \E loss \in Losses :
        /\ ~IsFinite(loss)
        /\ LET d == data_iter_step
               refresh == RefreshCond(lr_present, wd_present, d, update_freq)
           IN  /\ param_groups' = Refreshed(param_groups, d)
               /\ eff' = [NoEffect EXCEPT
                            !.d = d,
                            !.lr_writes = IF refresh THEN LrWrites(param_groups, lr_present) ELSE 0,
                            !.wd_writes = IF refresh THEN WdWrites(param_groups, wd_present) ELSE 0,
                            !.forward = TRUE, !.loss = loss]
    /\ pc' = "raised"
    /\ data_iter_step' = data_iter_step + 1
    /\ UNCHANGED <<update_freq, num_training_steps_per_epoch, use_amp, lr_present,
                   wd_present, ema_present, epoch, start_steps, grad, opt_steps,
                   epoch_opt_steps, dropped, ema_updates, meters, processed, synced,
                   returned>>
    /\ UNCHANGED <<evalVars, predVars>>

\* lines 144-147: the source is exhausted
EndEpoch ==
    /\ pc = "loop"
    /\ pc' = "returned"
    /\ synced' = synced + 1
    /\ returned' = meters
    /\ UNCHANGED <<update_freq, num_training_steps_per_epoch, use_amp, lr_present,
                   wd_present, ema_present, epoch, start_steps, data_iter_step, grad,
                   param_groups, opt_steps, epoch_opt_steps, dropped, ema_updates, meters,
                   processed, eff>>
    /\ UNCHANGED <<evalVars, predVars>>

\* --------------------------------------------- properties of train_one_epoch

NonFinite == {"nan", "inf", "-inf"}

\* C1: a processed micro-step triggers an optimizer step if and only if the
\* number of micro-steps processed so far in the epoch, that one included, is a
\* multiple of update_freq; so the epoch has made exactly one optimizer step per
\* update_freq processed micro-steps.
C1_StepEveryF ==
    /\ eff.recorded => (eff.opt_step <=> processed % update_freq = 0)
    /\ epoch_opt_steps = processed \div update_freq

C1_Witness ==
    /\ eff.opt_step /\ use_amp
    /\ update_freq = 3 /\ processed = 6 /\ epoch_opt_steps = 2

\* C2: a micro-step whose loss is NaN or infinite ends the loop: it leaves the
\* gradients, the optimizer, the EMA model and the meters as they were, the
\* function raises instead of returning a map, and nothing runs afterwards.
C2_NonFiniteStops ==
    /\ [][eff'.loss \in NonFinite =>
            /\ eff' # eff
            /\ grad' = grad /\ opt_steps' = opt_steps /\ ema_updates' = ema_updates
            /\ meters' = meters /\ processed' = processed
            /\ ~eff'.backward /\ ~eff'.opt_step /\ ~eff'.zero_grad
            /\ ~eff'.ema /\ ~eff'.recorded
            /\ pc' = "raised" /\ returned' = "none" /\ synced' = 0]_vars
    /\ [][pc # "raised"]_vars

C2_Witness ==
    /\ pc = "raised" /\ eff.loss = "inf" /\ eff.d = 3
    /\ update_freq = 2 /\ grad # {} /\ opt_steps = 1

\* C3: at a micro-step whose index is not a multiple of update_freq no
\* parameter group's lr or weight_decay is written.
C3_NoRefreshBetweenBoundaries ==
    (eff.forward /\ eff.d % update_freq # 0) =>
        (eff.lr_writes = 0 /\ eff.wd_writes = 0)

\* C4: a batch whose step index is at or past num_training_steps_per_epoch
\* changes nothing but the position in the source; the loop goes on after it
\* and ends normally, synchronizing once and returning the meters' map.
C4_SkippedBatchesDrain ==
    /\ [][(pc = "loop" /\ data_iter_step' = data_iter_step + 1
            /\ data_iter_step \div update_freq >= num_training_steps_per_epoch) =>
            /\ UNCHANGED <<param_groups, grad, opt_steps, epoch_opt_steps,
                           ema_updates, meters, processed, synced, returned>>
            /\ pc' = "loop"
            /\ ~eff'.forward /\ ~eff'.backward /\ ~eff'.opt_step /\ ~eff'.ema
            /\ ~eff'.recorded /\ eff'.lr_writes = 0 /\ eff'.wd_writes = 0]_vars
    /\ [](pc = "returned" => (synced = 1 /\ returned = meters))
    /\ [](eff.skipped => pc \in {"loop", "returned"})

C4_Witness ==
    /\ pc = "returned" /\ eff.skipped /\ synced = 1
    /\ processed = 4 /\ data_iter_step = 7 /\ returned = meters

\* C10: whenever the optimizer steps, the accumulated gradient holds exactly
\* the last update_freq micro-steps of the current epoch; between steps it
\* holds exactly the micro-steps processed in this epoch since the last step,
\* and it is empty right after a step and at the start of an epoch.
C10_GradWindow ==
    /\ eff.opt_step =>
        /\ eff.stepped_grad =
             {<<epoch, k>> : k \in (eff.d - update_freq + 1)..eff.d}
        /\ Cardinality(eff.stepped_grad) = update_freq
    /\ pc = "loop" =>
        grad = {<<epoch, k>> :
                  k \in (processed - (processed % update_freq))..(processed - 1)}
    /\ (pc = "loop" /\ processed % update_freq = 0) => grad = {}

C10_Witness ==
    /\ epoch = 1 /\ dropped # {} /\ eff.opt_step
    /\ update_freq = 3 /\ processed = 3

NextTrain == StartEpoch \/ SkipBatch \/ MicroStep \/ NonFiniteLoss \/ EndEpoch

SpecTrain == InitTrain /\ [][NextTrain]_vars

\* --------------------------------------------------------------- evaluate

\* data_loader.dataset.class_to_idx
ClassToIdx == [neg |-> 0, pos |-> 1]

ClassNames == DOMAIN ClassToIdx
ClassIds == {ClassToIdx[c] : c \in ClassNames}

\* a sample is its target and the arg-max of the model's output for it
Samples == [target : ClassIds, predict : ClassIds]

RECURSIVE SeqsUpTo(_, _)
SeqsUpTo(S, n) ==
    IF n = 0 THEN {<<>>}
    ELSE LET shorter == SeqsUpTo(S, n - 1)
         IN  shorter \cup {Append(q, x) : q \in {r \in shorter : Len(r) = n - 1}, x \in S}

\* the batches the validation source can yield: at least one sample each
Batches == {b \in SeqsUpTo(Samples, MaxBatchSize) : Len(b) > 0}

\* a test that also lets an empty class through
HasSamplesOrNone(data_size) == data_size >= 0

\* if data_size > 0:
HasSamples(data_size) == data_size > 0

\* mask = (target == class_id); the positions of the batch the mask selects
Mask(batch, class_id) == {i \in 1..Len(batch) : batch[i].target = class_id}

\* accuracy(output, target, topk=(1, ...))[0] * n: 100 for each top-1 hit
Top1Hits(batch, idx) == Cardinality({i \in idx : batch[i].predict = batch[i].target})

\* meter.update(value, n), the meter created on first access
EvUpdate(m, name, value_times_n, n) ==
    [k \in DOMAIN m \cup {name} |->
        IF k = name
        THEN [count |-> (IF k \in DOMAIN m THEN m[k].count ELSE 0) + n,
              total |-> (IF k \in DOMAIN m THEN m[k].total ELSE 0) + value_times_n]
        ELSE m[k]]

\* lines 191-193: loss and the overall accuracies of one batch
EvOverall(m, batch) ==
    LET all == 1..Len(batch)
        m1 == EvUpdate(m, "loss", 0, 1)
        m2 == EvUpdate(m1, "acc1", 100 * Top1Hits(batch, all), Len(batch))
    IN  EvUpdate(m2, "acc5", 100 * Len(batch), Len(batch))

\* lines 218-227: the body of the loop over class_to_idx for one class
EvClass(m, batch, class_name) ==
    LET idx == Mask(batch, ClassToIdx[class_name])
        data_size == Cardinality(idx)
    IN  IF HasSamples(data_size)
        THEN EvUpdate(EvUpdate(m, "acc1_" \o class_name,
                               100 * Top1Hits(batch, idx), data_size),
                      "acc5_" \o class_name, 100 * data_size, data_size)
        ELSE m

RECURSIVE EvClasses(_, _, _)
EvClasses(m, batch, names) ==
    IF names = {} THEN m
    ELSE LET c == CHOOSE x \in names : TRUE
         IN  EvClasses(EvClass(m, batch, c), batch, names \ {c})

\* lines 199-214: one annotated image per sample, into neg/ or pos/
Written(w, batch) ==
    [pn \in {"neg", "pos"} |->
        w[pn] + Cardinality({i \in 1..Len(batch) :
                               (IF batch[i].predict = 0 THEN "neg" ELSE "pos") = pn})]

InitEval ==
    /\ ev_pc = "loop"
    /\ ev_meters = <<>>
    /\ ev_batches = 0
    /\ cnt = 0
    /\ ev_written = [pn \in {"neg", "pos"} |-> 0]
    /\ ev_seen = [c \in ClassIds |-> 0]
    /\ ev_last = [c \in ClassIds |-> 0]
    /\ ev_returned = "none"
    /\ TrainIdle
    /\ PredIdle

\* lines 169-227: one batch of the validation loop
EvalBatch ==
    /\ ev_pc = "loop"
    /\ ev_batches < MaxEvalBatches
    /\ \E batch \in Batches :
        /\ ev_meters' = EvClasses(EvOverall(ev_meters, batch), batch, ClassNames)
        /\ cnt' = cnt + Len(batch)
        /\ ev_written' = Written(ev_written, batch)
        /\ ev_last' = [c \in ClassIds |-> Cardinality(Mask(batch, c))]
        /\ ev_seen' = [c \in ClassIds |-> ev_seen[c] + Cardinality(Mask(batch, c))]
    /\ ev_batches' = ev_batches + 1
    /\ UNCHANGED <<ev_pc, ev_returned>>
    /\ UNCHANGED <<trainVars, predVars>>

\* lines 229-234: the source is exhausted; the summary line reads the acc1,
\* acc5 and loss meters, which exist only once a batch has been recorded
EvalFinish ==
    /\ ev_pc = "loop"
    /\ IF {"acc1", "acc5", "loss"} \subseteq DOMAIN ev_meters
       THEN ev_pc' = "returned" /\ ev_returned' = ev_meters
       ELSE ev_pc' = "raised" /\ ev_returned' = "none"
    /\ UNCHANGED <<ev_meters, ev_batches, cnt, ev_written, ev_seen, ev_last>>
    /\ UNCHANGED <<trainVars, predVars>>

NextEval == EvalBatch \/ EvalFinish

\* C9: the per-class meters acc1_<class> and acc5_<class> are updated for a
\* batch only if the batch holds a sample of the class, with the number of
\* those samples as weight; a class no batch held a sample of has no entry in
\* the meters nor in the returned map.
C9_PerClassOnlyWhenPresent ==
    /\ [][\A c \in ClassNames :
            LET a1 == "acc1_" \o c
                a5 == "acc5_" \o c
                n == ev_last'[ClassToIdx[c]]
                old(k) == IF k \in DOMAIN ev_meters THEN ev_meters[k].count ELSE 0
            IN  ev_batches' = ev_batches + 1 =>
                  IF n = 0
                  THEN /\ (a1 \in DOMAIN ev_meters') = (a1 \in DOMAIN ev_meters)
                       /\ (a5 \in DOMAIN ev_meters') = (a5 \in DOMAIN ev_meters)
                       /\ a1 \in DOMAIN ev_meters => ev_meters'[a1] = ev_meters[a1]
                       /\ a5 \in DOMAIN ev_meters => ev_meters'[a5] = ev_meters[a5]
                  ELSE /\ ev_meters'[a1].count = old(a1) + n
                       /\ ev_meters'[a5].count = old(a5) + n]_vars
    /\ [](\A c \in ClassNames :
            ev_seen[ClassToIdx[c]] = 0 =>
                /\ "acc1_" \o c \notin DOMAIN ev_meters
                /\ "acc5_" \o c \notin DOMAIN ev_meters
                /\ ev_pc = "returned" =>
                     /\ "acc1_" \o c \notin DOMAIN ev_returned
                     /\ "acc5_" \o c \notin DOMAIN ev_returned)

C9_Witness ==
    /\ ev_pc = "returned" /\ ev_batches = 2
    /\ ev_seen[ClassToIdx["pos"]] = 3 /\ ev_seen[ClassToIdx["neg"]] = 0
    /\ "acc1_pos" \in DOMAIN ev_returned /\ ev_returned["acc1_pos"].count = 3
    /\ "acc1_neg" \notin DOMAIN ev_returned

SpecEval == InitEval /\ [][NextEval]_vars

\* ------------------------------------------------------------- prediction

\* Paths are sequences of characters. The relative paths make_list can hand
\* over: t0_a.jpg, t1_b.jpg, neg_c.jpg, pos_d.jpg, test_e.jpg, t_f.jpg and
\* d/t1_g.jpg.
Paths ==
    { <<"t", "0", "_", "a", ".", "j", "p", "g">>,
      <<"t", "1", "_", "b", ".", "j", "p", "g">>,
      <<"n", "e", "g", "_", "c", ".", "j", "p", "g">>,
      <<"p", "o", "s", "_", "d", ".", "j", "p", "g">>,
      <<"t", "e", "s", "t", "_", "e", ".", "j", "p", "g">>,
      <<"t", "_", "f", ".", "j", "p", "g">>,
      <<"d", "/", "t", "1", "_", "g", ".", "j", "p", "g">> }

\* the classes the model can predict (args.nb_classes = 2)
PredClasses == {0, 1}

\* the confidence proxies: the raw maximum of the output
Confs == {5, 9}

Digits == [c \in {"0", "1", "2", "3", "4", "5", "6", "7", "8", "9"} |->
            CASE c = "0" -> 0 [] c = "1" -> 1 [] c = "2" -> 2 [] c = "3" -> 3
              [] c = "4" -> 4 [] c = "5" -> 5 [] c = "6" -> 6 [] c = "7" -> 7
              [] c = "8" -> 8 [] c = "9" -> 9]

\* str.split('_')[0]: the characters before the first underscore
RECURSIVE FirstSegment(_)
FirstSegment(p) ==
    IF p = <<>> \/ Head(p) = "_" THEN <<>>
    ELSE <<Head(p)>> \o FirstSegment(Tail(p))

\* target = int(spltnm[0][1]) if spltnm[0][0] == 't' else -1
\* Indexing past the end of a string raises IndexError, int() of a character
\* that is no digit raises ValueError.
ParseTarget(p) ==
    LET seg == FirstSegment(p)
    IN  IF Len(seg) < 1 THEN [error |-> "IndexError", value |-> -1]
        ELSE IF seg[1] # "t" THEN [error |-> "none", value |-> -1]
        ELSE IF Len(seg) < 2 THEN [error |-> "IndexError", value |-> -1]
        ELSE IF seg[2] \notin DOMAIN Digits THEN [error |-> "ValueError", value |-> -1]
        ELSE [error |-> "none", value |-> Digits[seg[2]]]

NoError == [type |-> "none", line |-> 0, path |-> <<>>]

\* the .txt file of the same name next to an image: the path with its
\* extension replaced
RECURSIVE Stem(_)
Stem(p) == IF p = <<>> \/ p[Len(p)] = "." THEN SubSeq(p, 1, Len(p) - 1)
           ELSE Stem(SubSeq(p, 1, Len(p) - 1))

TxtNextTo(p) == Stem(p) \o <<".", "t", "x", "t">>

\* str(n)[:-3] + 'txt'
SidecarPath(p) == SubSeq(p, 1, Len(p) - 3) \o <<"t", "x", "t">>

\* [i for i in range(len(result)) if keep(result[i])], indices counted from 0
\* keep is the sequence of the condition's values, one per record
Indices(keep) ==
    LET upto[n \in 0..Len(keep)] ==
            IF n = 0 THEN <<>>
            ELSE upto[n - 1] \o (IF keep[n] THEN <<n - 1>> ELSE <<>>)
    IN  upto[Len(keep)]

\* pos = [x[-1] for x in result if x[0]==1]; neg likewise with 0
PathsPredicted(rs, class) ==
    LET idx == Indices([i \in 1..Len(rs) |-> rs[i].pred = class])
    IN  [k \in 1..Len(idx) |-> rs[idx[k] + 1].path]

\* np.sum(np.array(result)[...,2])
RECURSIVE TargetSum(_)
TargetSum(rs) == IF rs = <<>> THEN 0 ELSE Head(rs).target + TargetSum(Tail(rs))

\* if np.sum(np.array(result)[...,2]) < 0:
FallbackChosen(rs) == TargetSum(rs) < 0

IsTN(x) == x.pred = x.target /\ x.pred = 0
IsTP(x) == x.pred = x.target /\ x.pred = 1
IsFN(x) == x.pred # x.target /\ x.pred = 0
IsFP(x) == x.pred # x.target /\ x.pred = 1
IsNeg(x) == x.pred = 0
IsPos(x) == x.pred = 1

InitPred ==
    /\ pr_pc = "crop"
    /\ pr_error = NoError
    /\ pred_save \in BOOLEAN
    /\ pred_eval \in BOOLEAN
    /\ result = <<>>
    /\ files = {}
    /\ copied = {}
    /\ neg_i = 0 /\ pos_i = 0
    /\ branch = "none"
    /\ itn = <<>> /\ itp = <<>> /\ ifn = <<>> /\ ifp = <<>>
    /\ TrainIdle
    /\ EvalIdle

\* lines 263-285: one record of data_list. The record's image exists; its
\* same-named .txt file may or may not.
CropRecord ==
    /\ pr_pc = "crop"
    /\ Len(result) < MaxRecords
    /\ \E p \in Paths, pred \in PredClasses, conf \in Confs, txt \in BOOLEAN :
        /\ \A i \in 1..Len(result) : result[i].path # p
        /\ files' = IF txt THEN files \cup {TxtNextTo(p)} ELSE files
        /\ LET t == ParseTarget(p)
           IN  IF t.error = "none"
               THEN /\ result' = Append(result, [pred |-> pred, conf |-> conf,
                                                 target |-> t.value, path |-> p])
                    /\ UNCHANGED <<pr_pc, pr_error>>
               ELSE /\ pr_pc' = "raised"
                    /\ pr_error' = [type |-> t.error, line |-> 274, path |-> p]
                    /\ UNCHANGED result
    /\ UNCHANGED <<pred_save, pred_eval, copied, neg_i, pos_i, branch, itn, itp, ifn, ifp>>
    /\ UNCHANGED <<trainVars, evalVars>>

AfterSave == IF pred_eval THEN "eval" ELSE "done"

\* line 263 / 288: data_list is exhausted
EndCrop ==
    /\ pr_pc = "crop"
    /\ pr_pc' = IF pred_save THEN "save" ELSE AfterSave
    /\ UNCHANGED <<pr_error, pred_save, pred_eval, result, files, copied, neg_i, pos_i,
                   branch, itn, itp, ifn, ifp>>
    /\ UNCHANGED <<trainVars, evalVars>>

\* the two shutil.copy calls of one iteration: the image, then the .txt
\* file, whose absence raises FileNotFoundError
CopyPair(p, side, line) ==
    /\ IF SidecarPath(p) \in files
       THEN /\ copied' = copied \cup {<<side \o "/images", p>>,
                                      <<side \o "/annotations", SidecarPath(p)>>}
            /\ UNCHANGED <<pr_pc, pr_error>>
       ELSE /\ copied' = copied \cup {<<side \o "/images", p>>}
            /\ pr_pc' = "raised"
            /\ pr_error' = [type |-> "FileNotFoundError", line |-> line,
                             path |-> SidecarPath(p)]

\* lines 292-294: one iteration of the loop over neg
CopyNegative ==
    /\ pr_pc = "save"
    /\ neg_i < Len(PathsPredicted(result, 0))
    /\ CopyPair(PathsPredicted(result, 0)[neg_i + 1], "negative", 294)
    /\ neg_i' = neg_i + 1
    /\ UNCHANGED <<pred_save, pred_eval, result, files, pos_i, branch, itn, itp, ifn, ifp>>
    /\ UNCHANGED <<trainVars, evalVars>>

\* lines 295-297: one iteration of the loop over pos
CopyPositive ==
    /\ pr_pc = "save"
    /\ neg_i = Len(PathsPredicted(result, 0))
    /\ pos_i < Len(PathsPredicted(result, 1))
    /\ CopyPair(PathsPredicted(result, 1)[pos_i + 1], "positive", 297)
    /\ pos_i' = pos_i + 1
    /\ UNCHANGED <<pred_save, pred_eval, result, files, neg_i, branch, itn, itp, ifn, ifp>>
    /\ UNCHANGED <<trainVars, evalVars>>

\* line 297 / 301: both lists are copied
EndSave ==
    /\ pr_pc = "save"
    /\ neg_i = Len(PathsPredicted(result, 0))
    /\ pos_i = Len(PathsPredicted(result, 1))
    /\ pr_pc' = AfterSave
    /\ UNCHANGED <<pr_error, pred_save, pred_eval, result, files, copied, neg_i, pos_i,
                   branch, itn, itp, ifn, ifp>>
    /\ UNCHANGED <<trainVars, evalVars>>

\* lines 301-367: the statistical report. Column 2 of an array built from no
\* record does not exist: IndexError.
Report ==
    /\ pr_pc = "eval"
    /\ IF result = <<>>
       THEN /\ pr_pc' = "raised"
            /\ pr_error' = [type |-> "IndexError", line |-> 302, path |-> <<>>]
            /\ UNCHANGED <<branch, itn, itp, ifn, ifp>>
       ELSE /\ pr_pc' = "done"
            /\ UNCHANGED pr_error
            /\ IF FallbackChosen(result)
               THEN /\ branch' = "fallback"
                    /\ itn' = Indices([i \in 1..Len(result) |-> IsNeg(result[i])])
                    /\ itp' = Indices([i \in 1..Len(result) |-> IsPos(result[i])])
                    /\ UNCHANGED <<ifn, ifp>>
               ELSE /\ branch' = "four"
                    /\ itn' = Indices([i \in 1..Len(result) |-> IsTN(result[i])])
                    /\ itp' = Indices([i \in 1..Len(result) |-> IsTP(result[i])])
                    /\ ifn' = Indices([i \in 1..Len(result) |-> IsFN(result[i])])
                    /\ ifp' = Indices([i \in 1..Len(result) |-> IsFP(result[i])])
    /\ UNCHANGED <<pred_save, pred_eval, result, files, copied, neg_i, pos_i>>
    /\ UNCHANGED <<trainVars, evalVars>>

\* ------------------------------------------------- properties of prediction

Known(rs) == {i \in 1..Len(rs) : rs[i].target # -1}

InBucket(b, i) == \E k \in 1..Len(b) : b[k] = i - 1

\* C5: in the four-way report a record with predicted = actual = 1 is in the
\* true-positive bucket and in no other, and the sizes of the four buckets add
\* up to the number of records whose ground truth is known.
C5_BucketsCountKnownRecords ==
    branch = "four" =>
        /\ \A i \in 1..Len(result) :
            (result[i].pred = 1 /\ result[i].target = 1) =>
                /\ InBucket(itp, i)
                /\ ~InBucket(itn, i) /\ ~InBucket(ifn, i) /\ ~InBucket(ifp, i)
        /\ Len(itn) + Len(itp) + Len(ifn) + Len(ifp) = Cardinality(Known(result))

\* C6: the four-way report is taken if and only if some record has a known
\* ground truth, the fallback if and only if every record has the sentinel -1.
C6_FourWayIffSomeKnown ==
    branch # "none" =>
        /\ branch = "four" <=> Known(result) # {}
        /\ branch = "fallback" <=> Known(result) = {}

\* the file name of a path: what follows its last "/"
RECURSIVE BaseName(_)
BaseName(p) ==
    IF \E i \in 1..Len(p) : p[i] = "/"
    THEN BaseName(Tail(p))
    ELSE p

\* the label a file name carries: the digit of a t<digit> prefix, else -1
LabelOfName(p) ==
    LET b == BaseName(p)
    IN  IF Len(b) >= 2 /\ b[1] = "t" /\ b[2] \in DOMAIN Digits
        THEN Digits[b[2]] ELSE -1

\* C7: resolving the label of a relative path never fails, and yields the
\* digit of the name's t<digit> prefix, or -1 when the name has none.
C7_LabelNeverFails ==
    /\ pr_error.line # 274
    /\ \A i \in 1..Len(result) : result[i].target = LabelOfName(result[i].path)

\* C8: with pred_save, every image is copied to the images folder of its
\* predicted class, its .txt file to the annotations folder exactly when that
\* file exists, and a missing .txt file fails nothing.
C8_MissingSidecarTolerated ==
    /\ pr_error.type # "FileNotFoundError"
    /\ (pred_save /\ pr_pc \in {"eval", "done"}) =>
        \A i \in 1..Len(result) :
            LET side == IF result[i].pred = 0 THEN "negative" ELSE "positive"
                p == result[i].path
            IN  /\ <<side \o "/images", p>> \in copied
                /\ (<<side \o "/annotations", TxtNextTo(p)>> \in copied)
                     <=> (TxtNextTo(p) \in files)

NextPred == CropRecord \/ EndCrop \/ CopyNegative \/ CopyPositive \/ EndSave \/ Report

SpecPred == InitPred /\ [][NextPred]_vars

====
